---- MODULE Spec2Model ----
(***************************************************************************)
(* slig: named locks kept as files in a shared git repository.             *)
(*                                                                         *)
(* The remote is one branch: a tip tree and the number of commits on it.   *)
(* Every invocation of the program is one process: it clones the tip, runs *)
(* one operation of ClonedGitRepo on the clone, which ends in a commit,    *)
(* and publishes the commit with git push (initialize, add_lock,           *)
(* remove_lock) or with _sync_check_conflict (acquire, release).  The      *)
(* clone and the local work up to the commit touch the scratch directory   *)
(* only, so they are one step; every git push and git pull --rebase is a   *)
(* step of its own, and the steps of different processes interleave.       *)
(*                                                                         *)
(* A tree is the content of the repository root:                           *)
(*   cfg   slig.ini: absent, or present with the kind of every lock of its *)
(*         locks section (or without a locks section)                      *)
(*   lock  the first line of the file <name>, or "absent"                  *)
(*   read  the tokens T of the files <name>.read.<T>                       *)
(***************************************************************************)
EXTENDS Integers, FiniteSets, Sequences, TLC

\* ---- bounds ----
NumClients == 3      \* process slots that run at the same time
MaxOps == 6          \* invocations of the program in one behaviour
MaxTok == 3          \* uuid4 values drawn in one behaviour

\* ---- program constants ----
MAX_RETRY == 3

Clients == 1..NumClients
Names == {"data"}
Kinds == {"simple", "readwrite"}
RwActions == {"none", "read", "write"}

\* str(uuid.uuid4()): the i-th token drawn; tokens never repeat
TokenText == <<"u1", "u2", "u3", "u4", "u5", "u6", "u7", "u8">>
uuid4(i) == TokenText[i]
Tokens == {uuid4(i) : i \in 1..MaxTok}

VARIABLES
    remote,     \* [ver, tree]: the branch of the shared repository
    proc,       \* per process slot: the invocation running there
    nextTok,    \* index of the next uuid4 value
    started,    \* invocations started so far
    last,       \* the invocation that ended last: its arguments and its outcome
    phase,      \* "setup" until the first acquire or release starts, "locking"
                \* from then on, "mixed" once initialize, add_lock or remove_lock
                \* has been started after that
    reinit      \* initialize has been run on a clone that had a slig.ini

vars == <<remote, proc, nextTok, started, last, phase, reinit>>

\* ---- trees ----
NoConfig == [exists |-> FALSE, locks |-> FALSE, kind |-> [n \in Names |-> "none"]]
\* what config.write leaves of a ConfigParser that has no section
BlankConfig == [exists |-> TRUE, locks |-> FALSE, kind |-> [n \in Names |-> "none"]]
\* initialize: config['locks'] = {}, config['metadata'] = {"version": "1.0"}
FreshConfig == [exists |-> TRUE, locks |-> TRUE, kind |-> [n \in Names |-> "none"]]

EmptyTree == [cfg |-> NoConfig,
              lock |-> [n \in Names |-> "absent"],
              read |-> [n \in Names |-> {}]]

\* config.read(path); `x in config['locks']` raises KeyError without the section
HasLocks(t) == t.cfg.exists /\ t.cfg.locks
Declared(t, n) == HasLocks(t) /\ t.cfg.kind[n] # "none"

\* lock_name in map(lambda x: x.name, pathlib.Path(self.path).iterdir())
InDir(t, n) == t.lock[n] # "absent"

\* _lock_acquired: the file exists and its first line is not READ
LockAcquired(t, n) == InDir(t, n) /\ t.lock[n] # "READ"

\* _num_read_lock_acquired: entries whose name starts with <name>.read.
NumReadLockAcquired(t, n) == Cardinality(t.read[n])

\* ---- the operations, on the tree of the clone ----
\* Each operation has an error (the message it exits with before it commits,
\* "none" when it gets as far as git commit) and the tree it commits.

\* initialize
InitializeTree(t) == [t EXCEPT !.cfg = FreshConfig]

\* add_lock: the try block ends in the bare except both when the name is
\* already there (sys.exit raises SystemExit) and when config['locks'] raises
\* KeyError; what is written afterwards is the parser as it then stands
\* add_lock that sets the kind whether or not the name is already there
AddLockConfigOverwrites(t, lock_name, lock_type) ==
    IF HasLocks(t)
    THEN [t.cfg EXCEPT !.kind[lock_name] = lock_type]
    ELSE BlankConfig

AddLockConfig(t, lock_name, lock_type) ==
    IF HasLocks(t)
    THEN IF lock_name \in Names /\ t.cfg.kind[lock_name] # "none"
         THEN t.cfg
         ELSE [t.cfg EXCEPT !.kind[lock_name] = lock_type]
    ELSE BlankConfig

AddLockTree(t, lock_name, lock_type) ==
    [t EXCEPT !.cfg = AddLockConfig(t, lock_name, lock_type)]

\* remove_lock: only the file <name> counts as "in use"
RemoveLockInUse(t, lock_name) == InDir(t, lock_name)

RemoveLockError(t, lock_name) ==
    IF ~HasLocks(t) THEN "KeyError"
    ELSE IF ~Declared(t, lock_name) THEN "doesn't exist in repository"
    ELSE IF RemoveLockInUse(t, lock_name) THEN "currently acquired"
    ELSE "none"

\* remove_lock that writes slig.ini back as it was read
RemoveLockTreeKeepsDeclaration(t, lock_name) == t

RemoveLockTree(t, lock_name) == [t EXCEPT !.cfg.kind[lock_name] = "none"]

\* acquire, lines 163-189: the check against the clone
AcquireError(t, lock_name, rw_action) ==
    IF ~HasLocks(t) THEN "KeyError"
    ELSE IF ~Declared(t, lock_name) THEN "doesn't exist in repository"
    ELSE LET lock_type == t.cfg.kind[lock_name] IN
         IF lock_type = "simple" /\ LockAcquired(t, lock_name)
         THEN "is currently acquired"
         ELSE IF lock_type = "readwrite" /\ rw_action = "read"
                 /\ LockAcquired(t, lock_name)
         THEN "write lock is currently acquired"
         ELSE IF lock_type = "readwrite" /\ rw_action = "write"
                 /\ LockAcquired(t, lock_name)
         THEN "write lock is currently acquired"
         ELSE IF lock_type = "readwrite" /\ rw_action = "write"
                 /\ NumReadLockAcquired(t, lock_name) # 0
         THEN "read locks are currently acquired"
         ELSE IF lock_type = "readwrite" /\ rw_action = "none"
         THEN "impossible branch"
         ELSE "none"

\* acquire, lines 194-209: the lock files written
AcquireTree(t, lock_name, rw_action, unique_token) ==
    IF t.cfg.kind[lock_name] = "simple" \/ rw_action = "write"
    THEN [t EXCEPT !.lock[lock_name] = unique_token]
    ELSE [t EXCEPT !.read[lock_name] = @ \cup {unique_token},
                   !.lock[lock_name] = "READ"]

\* release, lines 246-257: the reader file to remove, "none" for the file <name>
ReleaseReadLock(t, lock_name, uuid) ==
    IF uuid # "none" /\ t.lock[lock_name] = "READ" THEN uuid ELSE "none"

\* release without the comparison of uuid with the content of <name>
ReleaseErrorNoOwnerCheck(t, lock_name, uuid) ==
    IF ~HasLocks(t) THEN "KeyError"
    ELSE IF ~Declared(t, lock_name) THEN "doesn't exist in repository"
    ELSE IF ~InDir(t, lock_name) THEN "is currently not acquired"
    ELSE IF uuid # "none"
         THEN IF t.lock[lock_name] = "READ" /\ uuid \notin t.read[lock_name]
              THEN "no reader lock in uuid"
              ELSE "none"
         ELSE IF t.cfg.kind[lock_name] = "readwrite"
              THEN "cannot be force-released"
              ELSE "none"

\* release without the refusal to force-release a readwrite lock
ReleaseErrorForceAnyKind(t, lock_name, uuid) ==
    IF ~HasLocks(t) THEN "KeyError"
    ELSE IF ~Declared(t, lock_name) THEN "doesn't exist in repository"
    ELSE IF ~InDir(t, lock_name) THEN "is currently not acquired"
    ELSE IF uuid # "none"
         THEN IF t.lock[lock_name] = "READ"
              THEN IF uuid \notin t.read[lock_name]
                   THEN "no reader lock in uuid"
                   ELSE "none"
              ELSE IF uuid # t.lock[lock_name]
                   THEN "acquired by another uuid"
                   ELSE "none"
         ELSE "none"

\* release, lines 233-265
ReleaseError(t, lock_name, uuid) ==
    IF ~HasLocks(t) THEN "KeyError"
    ELSE IF ~Declared(t, lock_name) THEN "doesn't exist in repository"
    ELSE IF ~InDir(t, lock_name) THEN "is currently not acquired"
    ELSE IF uuid # "none"
         THEN IF t.lock[lock_name] = "READ"
              THEN IF uuid \notin t.read[lock_name]
                   THEN "no reader lock in uuid"
                   ELSE "none"
              ELSE IF uuid # t.lock[lock_name]
                   THEN "acquired by another uuid"
                   ELSE "none"
         ELSE IF t.cfg.kind[lock_name] = "readwrite"
              THEN "cannot be force-released"
              ELSE "none"

\* release that removes the reader file and never the file <name>
ReleaseTreeKeepsMarker(t, lock_name, uuid) ==
    LET release_read_lock == ReleaseReadLock(t, lock_name, uuid) IN
    IF release_read_lock # "none"
    THEN [t EXCEPT !.read[lock_name] = @ \ {release_read_lock}]
    ELSE [t EXCEPT !.lock[lock_name] = "absent"]

\* release, lines 267-276: git rm
ReleaseTree(t, lock_name, uuid) ==
    LET release_read_lock == ReleaseReadLock(t, lock_name, uuid) IN
    IF release_read_lock # "none"
    THEN LET t1 == [t EXCEPT !.read[lock_name] = @ \ {release_read_lock}] IN
         IF NumReadLockAcquired(t1, lock_name) = 0
         THEN [t1 EXCEPT !.lock[lock_name] = "absent"]
         ELSE t1
    ELSE [t EXCEPT !.lock[lock_name] = "absent"]

\* ---- git ----
\* git pull --rebase replays the local commit (base -> local) on the tip: per
\* file, the side that changed it wins, both sides making the same change is
\* fine, and two different changes of one file stop the rebase.
\* a merge that stops whenever both sides changed the file
FileConflictBothChanged(b, o, t) == t # b /\ o # b

FileConflict(b, o, t) == t # b /\ o # b /\ o # t
Merge3(b, o, t) == IF t = b THEN o ELSE t

\* a rebase that settles every conflict for the local commit (-X theirs)
RebaseConflictTheirs(base, tip, local) == FALSE

RebaseConflict(base, tip, local) ==
    \/ FileConflict(base.cfg, tip.cfg, local.cfg)
    \/ \E n \in Names :
          \/ FileConflict(base.lock[n], tip.lock[n], local.lock[n])
          \/ \E u \in Tokens :
                FileConflict(u \in base.read[n], u \in tip.read[n], u \in local.read[n])

Rebased(base, tip, local) ==
    [cfg  |-> Merge3(base.cfg, tip.cfg, local.cfg),
     lock |-> [n \in Names |-> Merge3(base.lock[n], tip.lock[n], local.lock[n])],
     read |-> [n \in Names |->
                 {u \in Tokens :
                    Merge3(u \in base.read[n], u \in tip.read[n], u \in local.read[n])}]]

\* git push is accepted iff the tip is still the commit the local one sits on
FastForward(p) == p.baseVer = remote.ver

\* what git push answers: "ok", or "rejected" (exit status 1)
GitPush(p) == IF FastForward(p) THEN "ok" ELSE "rejected"

\* an accepted push makes the local tree the tip; a rebase that found the
\* commit's changes already upstream dropped it, and the push has nothing to send
Pushed(p) == [ver  |-> IF p.local = remote.tree THEN remote.ver ELSE remote.ver + 1,
              tree |-> p.local]

\* ---- processes ----
\* A slot is idle, or runs one invocation that has committed on its clone and
\* is publishing.  base is the tree of the commit the local branch sits on (the
\* clone, until a rebase moves it), baseVer that commit, local the tree of the
\* local commit.  cloneVer and lock_type remember the commit the invocation
\* cloned and the kind it read from the clone's slig.ini.
Idle == [pc |-> "idle", op |-> "none", name |-> "none", arg |-> "none",
         uuid |-> "none", lock_type |-> "none", baseVer |-> 0, base |-> EmptyTree,
         local |-> EmptyTree, retry_cnt |-> 0, cloneVer |-> 0]

NoOutcome == [op |-> "none", name |-> "none", arg |-> "none", uuid |-> "none",
              status |-> "none", err |-> "none"]

\* exit status 0 ("ok"), or sys.exit(1) / an uncaught exception ("fail")
Outcome(p, status, err) ==
    [op |-> p.op, name |-> p.name, arg |-> p.arg, uuid |-> p.uuid,
     status |-> status, err |-> err]

\* the test of the push's exit status turned around
SyncStatusNegated(push_result) == IF push_result = "ok" THEN "fail" ELSE "ok"

\* _sync_check_conflict returns True exactly when a push was accepted (lines
\* 62-64 and 76-79); acquire and release exit with status 1 when it returns False
SyncStatus(push_result) == IF push_result = "ok" THEN "ok" ELSE "fail"

Init ==
    /\ remote = [ver |-> 0, tree |-> EmptyTree]
    /\ proc = [c \in Clients |-> Idle]
    /\ nextTok = 1
    /\ started = 0
    /\ last = NoOutcome
    /\ phase = "setup"
    /\ reinit = FALSE

\* the invocation in slot c ends
Finish(c, p, status, err) ==
    /\ proc' = [proc EXCEPT ![c] = Idle]
    /\ last' = Outcome(p, status, err)

\* An invocation from its start to its commit: ClonedGitRepo.__init__ clones the
\* tip, and the operation runs on the clone up to and including git commit.
\* Nothing of this touches the remote after the clone, so it is one step, taken
\* at the moment of the clone.  git commit exits non-zero when nothing is
\* staged, which the operation reports as GitError.  Slots are
\* interchangeable: a new invocation takes the first free one.
Run(c, op, name, arg, uuid, err, local, pc) ==
    LET p == [Idle EXCEPT !.op = op, !.name = name, !.arg = arg, !.uuid = uuid,
                          !.lock_type = IF name \in Names
                                        THEN remote.tree.cfg.kind[name]
                                        ELSE "none",
                          !.base = remote.tree, !.baseVer = remote.ver,
                          !.cloneVer = remote.ver]
    IN  /\ proc[c].pc = "idle"
        /\ \A d \in Clients : d < c => proc[d].pc # "idle"
        /\ started < MaxOps
        /\ started' = started + 1
        /\ phase' = IF op \in {"acquire", "release"}
                     THEN (IF phase = "setup" THEN "locking" ELSE phase)
                     ELSE (IF phase = "locking" THEN "mixed" ELSE phase)
        /\ reinit' = (reinit \/ (op = "initialize" /\ remote.tree.cfg.exists))
        /\ IF err # "none" THEN Finish(c, p, "fail", err)
           ELSE IF local = remote.tree THEN Finish(c, p, "fail", "GitError")
           ELSE /\ proc' = [proc EXCEPT ![c] = [p EXCEPT !.pc = pc, !.local = local]]
                /\ UNCHANGED last
        /\ UNCHANGED remote

Initialize(c) ==
    /\ Run(c, "initialize", "none", "none", "none", "none",
           InitializeTree(remote.tree), "plainpush")
    /\ UNCHANGED nextTok

AddLock(c, lock_name, lock_type) ==
    /\ Run(c, "add_lock", lock_name, lock_type, "none", "none",
           AddLockTree(remote.tree, lock_name, lock_type), "plainpush")
    /\ UNCHANGED nextTok

RemoveLock(c, lock_name) ==
    /\ Run(c, "remove_lock", lock_name, "none", "none",
           RemoveLockError(remote.tree, lock_name),
           RemoveLockTree(remote.tree, lock_name), "plainpush")
    /\ UNCHANGED nextTok

\* the token is drawn only when the check against the clone has passed
Acquire(c, lock_name, rw_action) ==
    LET err == AcquireError(remote.tree, lock_name, rw_action) IN
    IF err # "none"
    THEN /\ Run(c, "acquire", lock_name, rw_action, "none", err, remote.tree, "push")
         /\ UNCHANGED nextTok
    ELSE /\ nextTok <= MaxTok
         /\ Run(c, "acquire", lock_name, rw_action, uuid4(nextTok), "none",
                AcquireTree(remote.tree, lock_name, rw_action, uuid4(nextTok)), "push")
         /\ nextTok' = nextTok + 1

Release(c, lock_name, uuid) ==
    /\ Run(c, "release", lock_name, "none", uuid,
           ReleaseError(remote.tree, lock_name, uuid),
           ReleaseTree(remote.tree, lock_name, uuid), "push")
    /\ UNCHANGED nextTok

\* initialize, add_lock, remove_lock: one git push, GitError ends the program
PlainPush(c) ==
    /\ proc[c].pc = "plainpush"
    /\ IF GitPush(proc[c]) = "ok"
       THEN /\ remote' = Pushed(proc[c])
            /\ Finish(c, proc[c], "ok", "none")
       ELSE /\ Finish(c, proc[c], "fail", "GitError")
            /\ UNCHANGED remote
    /\ UNCHANGED <<nextTok, started, phase, reinit>>

\* a first push that is not issued until it can be accepted
PushWaits(c) ==
    /\ proc[c].pc = "push"
    /\ GitPush(proc[c]) = "ok"
    /\ remote' = Pushed(proc[c])
    /\ Finish(c, proc[c], "ok", "none")
    /\ UNCHANGED <<nextTok, started, phase, reinit>>

\* _sync_check_conflict, lines 61-68: the first push
Push(c) ==
    /\ proc[c].pc = "push"
    /\ IF GitPush(proc[c]) = "ok"
       THEN /\ remote' = Pushed(proc[c])
            /\ Finish(c, proc[c], SyncStatus("ok"), "none")
       ELSE /\ IF proc[c].retry_cnt < MAX_RETRY
               THEN /\ proc' = [proc EXCEPT ![c].pc = "pull", ![c].retry_cnt = @ + 1]
                    /\ UNCHANGED last
               ELSE Finish(c, proc[c], "fail", "sync conflict")
            /\ UNCHANGED remote
    /\ UNCHANGED <<nextTok, started, phase, reinit>>

\* _sync_check_conflict, lines 69-73: git pull --rebase
PullRebase(c) ==
    /\ proc[c].pc = "pull"
    /\ IF RebaseConflict(proc[c].base, remote.tree, proc[c].local)
       THEN Finish(c, proc[c], "fail", "sync conflict")
       ELSE /\ proc' = [proc EXCEPT
                  ![c].pc = "repush",
                  ![c].local = Rebased(proc[c].base, remote.tree, proc[c].local),
                  ![c].base = remote.tree,
                  ![c].baseVer = remote.ver]
            /\ UNCHANGED last
    /\ UNCHANGED <<remote, nextTok, started, phase, reinit>>

\* _sync_check_conflict, lines 75-79: the push after the rebase; both of its
\* outcomes return from the loop
RePush(c) ==
    /\ proc[c].pc = "repush"
    /\ LET push_result == GitPush(proc[c]) IN
       /\ remote' = IF push_result = "ok" THEN Pushed(proc[c]) ELSE remote
       /\ Finish(c, proc[c], SyncStatus(push_result),
                 IF SyncStatus(push_result) = "ok" THEN "none" ELSE "sync conflict")
    /\ UNCHANGED <<nextTok, started, phase, reinit>>

Next ==
    \E c \in Clients :
       \/ Initialize(c)
       \/ \E n \in Names, k \in Kinds : AddLock(c, n, k)
       \/ \E n \in Names : RemoveLock(c, n)
       \/ \E n \in Names, rw \in RwActions : Acquire(c, n, rw)
       \/ \E n \in Names, u \in Tokens \cup {"none"} : Release(c, n, u)
       \/ PlainPush(c)
       \/ Push(c)
       \/ PullRebase(c)
       \/ RePush(c)

Spec == Init /\ [][Next]_vars

\* ---- the invariants of the lock files, on a tree ----
\* I1: reader files of a lock come with the file <name>
I1(t) == \A n \in Names : t.read[n] # {} => InDir(t, n)
\* I3: a lock whose file holds READ has a reader file
I3(t) == \A n \in Names : t.lock[n] = "READ" => t.read[n] # {}
\* I5: lock files belong to declared names
I5(t) == \A n \in Names : (InDir(t, n) \/ t.read[n] # {}) => Declared(t, n)

\* C1: while only acquire and release run on the declared locks, no remote tip
\* has, for a readwrite lock, both the file <name> with a first line other than
\* READ and a reader file <name>.read.<token>.
C1_ReaderWriterExclusion ==
    \A n \in Names :
       (phase # "mixed" /\ remote.tree.cfg.kind[n] = "readwrite")
          => ~(LockAcquired(remote.tree, n) /\ remote.tree.read[n] # {})

\* C3: in every remote tip reached by interleaved acquire and release
\* operations, a lock that has a reader file has the file <name>.
C3_I1_ReaderFilesHaveLockFile == phase # "mixed" => I1(remote.tree)

\* C4: in every remote tip reached by interleaved acquire and release
\* operations, a lock whose file holds READ has a reader file.
C4_I3_ReadMarkerHasReader == phase # "mixed" => I3(remote.tree)

\* C5: in every remote tip, every lock file and reader file belongs to a name
\* declared in the locks section of that tip's slig.ini (initialize being run
\* once, on the empty repository).
C5_I5_LockFilesAreDeclared == ~reinit => I5(remote.tree)

\* ---- steps of one invocation, for the properties of single operations ----
\* an invocation starts in this step: it clones remote.tree and runs on it
Runs == started' # started
\* the call made in a step in which Runs: operation and arguments
Call == IF proc' = proc THEN last'
        ELSE Outcome(proc'[CHOOSE c \in Clients : proc'[c] # proc[c]], "none", "none")
\* the call made in this step ends with exit status 1, before any commit, and
\* the remote is as it was
Rejected == proc' = proc /\ last'.status = "fail" /\ remote' = remote
\* the invocation of slot c, which had committed, ends in this step; last' is
\* then its outcome
Ends(c) == proc[c].pc # "idle" /\ proc'[c].pc = "idle"

\* token T holds lock n in tree t: as the content of <name> or as <name>.read.T
Holds(t, n, T) == t.lock[n] = T \/ T \in t.read[n]

\* C2: simple-lock mutual exclusion.  Of the acquires of a simple lock that
\* were committed on clones of the same commit, the one that pushes first
\* returns its token, and one that finds exactly one commit published since its
\* clone, which left a token in <name>, fails; and no commit replaces the token
\* in <name> of the remote tip by anything but the removal of the file.
C2_SimpleLockExclusion ==
    [][ /\ \A c \in Clients :
             (Ends(c) /\ proc[c].op = "acquire" /\ proc[c].lock_type = "simple")
                => /\ remote.ver = proc[c].cloneVer => last'.status = "ok"
                   /\ (/\ remote.ver = proc[c].cloneVer + 1
                       /\ LockAcquired(remote.tree, proc[c].name))
                         => last'.status = "fail"
        /\ \A n \in Names :
             LockAcquired(remote.tree, n)
                => remote'.tree.lock[n] \in {remote.tree.lock[n], "absent"}
      ]_vars

\* C2 witness: an acquire of a simple lock has lost the race: it drew a token,
\* failed in the sync, and the tip holds another token.
C2_Witness ==
    /\ last.op = "acquire" /\ last.status = "fail" /\ last.err = "sync conflict"
    /\ last.uuid # "none"
    /\ remote.tree.cfg.kind[last.name] = "simple"
    /\ LockAcquired(remote.tree, last.name)
    /\ remote.tree.lock[last.name] # last.uuid

WrongToken(t, n, uuid) ==
    \/ LockAcquired(t, n) /\ t.lock[n] # uuid
    \/ t.lock[n] = "READ" /\ uuid \notin t.read[n]

\* C7: release(name, T') on a clone where name is held by another token, or
\* held by readers none of which is T', ends with status 1 without a commit,
\* and the remote is unchanged.
C7_WrongTokenRejected ==
    [][ (/\ Runs
         /\ Call.op = "release"
         /\ Call.uuid # "none"
         /\ WrongToken(remote.tree, Call.name, Call.uuid))
           => Rejected
      ]_vars

\* C7 witness: a release has been refused for its token and the tip still has
\* the lock held by another token.
C7_Witness ==
    /\ last.op = "release" /\ last.status = "fail"
    /\ last.err = "acquired by another uuid"
    /\ LockAcquired(remote.tree, last.name)
    /\ remote.tree.lock[last.name] # last.uuid

C9_RemoveRefusedWhileInUse ==
    [][ (/\ Runs
         /\ Call.op = "remove_lock"
         /\ \/ InDir(remote.tree, Call.name)
            \/ remote.tree.read[Call.name] # {})
           => Rejected
      ]_vars

\* C10: initialize on a remote whose slig.ini initialize has written ends with
\* status 1 and leaves the remote, and with it the declared locks, unchanged.
C10_InitializeRefusedOnConfig ==
    [][ (/\ \/ Runs /\ proc' = proc
            \/ \E c \in Clients : Ends(c)
         /\ last'.op = "initialize"
         /\ HasLocks(remote.tree))
           => last'.status = "fail" /\ remote' = remote
      ]_vars

\* ---- round trips ----
\* no invocation is under way
Quiet == \A c \in Clients : proc[c].pc = "idle"
\* slot c is the only one with an invocation under way, and nothing has been
\* published since it cloned
Alone(c) == /\ \A d \in Clients \ {c} : proc[d].pc = "idle"
            /\ remote.ver = proc[c].cloneVer
\* the invocation that starts in this step commits tree t on its clone
Commits(t) == \E c \in Clients :
                 proc[c].pc = "idle" /\ proc'[c].pc # "idle" /\ proc'[c].local = t

\* the trees of round trip R1: after initialize, after declare(n, k), and with
\* token T holding n in mode m
R1Initialized == [EmptyTree EXCEPT !.cfg = FreshConfig]
R1Declared(n, k) == [R1Initialized EXCEPT !.cfg.kind[n] = k]
R1Held(n, k, m, T) ==
    IF k = "readwrite" /\ m = "read"
    THEN [R1Declared(n, k) EXCEPT !.lock[n] = "READ", !.read[n] = {T}]
    ELSE [R1Declared(n, k) EXCEPT !.lock[n] = T]

\* C11: round trip R1.  With no other invocation under way, initialize on the
\* empty repository commits the configuration, declare(n, k) on that commits the
\* declaration, acquire(n) on that (mode read or write for a readwrite lock)
\* commits the lock file of a fresh token T, release(n, T) on that commits the
\* tree of the declaration alone, and remove(n) on that commits the
\* configuration without n; and an invocation that runs alone ends with status 0
\* and its committed tree as the tip.  So every step succeeds on the tip the
\* step before has left, and the last tip has no file n, no file n.read.* and no
\* declaration of n.
C11_RoundTripR1 ==
    [][ /\ (Runs /\ Quiet) =>
             /\ (remote.tree = EmptyTree /\ Call.op = "initialize")
                   => Commits(R1Initialized)
             /\ \A n \in Names, k \in Kinds :
                   /\ (/\ remote.tree = R1Initialized
                       /\ Call.op = "add_lock" /\ Call.name = n /\ Call.arg = k)
                         => Commits(R1Declared(n, k))
                   /\ (/\ remote.tree = R1Declared(n, k)
                       /\ Call.op = "acquire" /\ Call.name = n
                       /\ k = "readwrite" => Call.arg \in {"read", "write"})
                         => /\ Call.uuid \in Tokens
                            /\ Commits(R1Held(n, k, Call.arg, Call.uuid))
                   /\ \A m \in RwActions, T \in Tokens :
                         (/\ remote.tree = R1Held(n, k, m, T)
                          /\ Call.op = "release" /\ Call.name = n /\ Call.uuid = T)
                            => Commits(R1Declared(n, k))
                   /\ (/\ remote.tree = R1Declared(n, k)
                       /\ Call.op = "remove_lock" /\ Call.name = n)
                         => /\ Commits(R1Initialized)
                            /\ ~Declared(R1Initialized, n)
                            /\ ~InDir(R1Initialized, n)
                            /\ R1Initialized.read[n] = {}
        /\ \A c \in Clients :
              (Ends(c) /\ Alone(c))
                 => last'.status = "ok" /\ remote'.tree = proc[c].local
      ]_vars

\* C11 witness: the round trip at its last step.  Five invocations have been
\* started; four have published a commit each, among them the acquire that drew
\* the first token; the release of that token has just succeeded and left the
\* declaration alone; remove_lock, the only invocation under way, has committed
\* the configuration without the lock.
C11_Witness ==
    /\ started = 5 /\ remote.ver = 4 /\ nextTok = 2
    /\ last.op = "release" /\ last.uuid = uuid4(1) /\ last.status = "ok"
    /\ \E n \in Names, k \in Kinds : remote.tree = R1Declared(n, k)
    /\ \E c \in Clients :
          /\ Alone(c)
          /\ proc[c].op = "remove_lock" /\ proc[c].local = R1Initialized

\* the trees of round trip R2: readwrite lock n held by the readers S
R2Readers(n, S) ==
    [R1Declared(n, "readwrite") EXCEPT
        !.lock[n] = IF S = {} THEN "absent" ELSE "READ",
        !.read[n] = S]

\* C12: round trip R2.  With no other invocation under way, acquire(n, read) on
\* a tip where readwrite lock n is free or held by the readers S, with READ in
\* <name> and one reader file per reader, draws a token not in S and commits
\* READ in <name> with the reader files of S and of the new token; release(n, T)
\* for a reader T of S commits the reader files of the others, with <name> kept
\* when a reader is left and removed with the last one; and an invocation that
\* runs alone ends with status 0 and its committed tree as the tip.
C12_RoundTripR2 ==
    [][ /\ (Runs /\ Quiet) =>
             \A n \in Names, S \in SUBSET Tokens :
                remote.tree = R2Readers(n, S) =>
                   /\ (Call.op = "acquire" /\ Call.name = n /\ Call.arg = "read")
                         => /\ Call.uuid \in Tokens \ S
                            /\ Commits(R2Readers(n, S \cup {Call.uuid}))
                            /\ InDir(R2Readers(n, S \cup {Call.uuid}), n)
                            /\ Cardinality(S \cup {Call.uuid}) = Cardinality(S) + 1
                   /\ (Call.op = "release" /\ Call.name = n /\ Call.uuid \in S)
                         => /\ Commits(R2Readers(n, S \ {Call.uuid}))
                            /\ InDir(R2Readers(n, S \ {Call.uuid}), n)
                                  <=> S # {Call.uuid}
        /\ \A c \in Clients :
              (Ends(c) /\ Alone(c))
                 => last'.status = "ok" /\ remote'.tree = proc[c].local
      ]_vars

\* C12 witness: the round trip of two readers at its last step.  Six
\* invocations have been started and five have published a commit each, among
\* them two acquires; the release of the second token has just succeeded and
\* left READ in <name> with the reader file of the first token; the release of
\* the first token, the only invocation under way, has committed the removal of
\* that file and of <name>.
C12_Witness ==
    /\ started = 6 /\ remote.ver = 5 /\ nextTok = 3
    /\ last.op = "release" /\ last.uuid = uuid4(2) /\ last.status = "ok"
    /\ \E n \in Names :
          /\ remote.tree = R2Readers(n, {uuid4(1)})
          /\ \E c \in Clients :
                /\ Alone(c)
                /\ proc[c].op = "release" /\ proc[c].uuid = uuid4(1)
                /\ proc[c].local = R2Readers(n, {})

\* C13: concurrent first readers.  Two acquire(name, read) that are under way
\* have drawn different tokens.  An acquire(name, read) that cloned readwrite
\* lock name free and committed READ with the reader file of its token T_A, and
\* finds that the one commit published since its clone is that of another first
\* reader T_B, rebases without conflict onto READ with both reader files; and
\* when nothing further has been published, its push after the rebase is
\* accepted, it ends with status 0, and the tip holds READ in <name>,
\* name.read.T_A and name.read.T_B.
C13_ConcurrentFirstReaders ==
    [][ \A c \in Clients :
          LET p == proc[c] IN
          /\ \A d \in Clients \ {c} :
                (/\ p.op = "acquire" /\ p.arg = "read"
                 /\ proc[d].op = "acquire" /\ proc[d].arg = "read")
                   => p.uuid # proc[d].uuid
          /\ \A TB \in Tokens \ {p.uuid} :
                /\ (/\ p.pc = "pull" /\ proc'[c] # p
                    /\ p.op = "acquire" /\ p.arg = "read"
                    /\ p.base = R2Readers(p.name, {})
                    /\ p.local = R2Readers(p.name, {p.uuid})
                    /\ remote.ver = p.cloneVer + 1
                    /\ remote.tree = R2Readers(p.name, {TB}))
                      => /\ proc'[c].pc = "repush"
                         /\ proc'[c].local = R2Readers(p.name, {p.uuid, TB})
                /\ (/\ p.pc = "repush" /\ Ends(c)
                    /\ p.op = "acquire" /\ p.arg = "read"
                    /\ p.local = R2Readers(p.name, {p.uuid, TB})
                    /\ remote.ver = p.cloneVer + 1
                    /\ remote.tree = R2Readers(p.name, {TB}))
                      => /\ last'.status = "ok" /\ last'.uuid = p.uuid
                         /\ remote'.tree.lock[p.name] = "READ"
                         /\ remote'.tree.read[p.name] = {p.uuid, TB}
      ]_vars

\* C13 witness: initialize, declare and two read-acquires have been started and
\* nothing else; both acquires cloned the free lock (commit 2); one has been
\* published (commit 3), the other has had its push rejected and has rebased
\* onto it, and its tree holds READ and both reader files.
C13_Witness ==
    /\ started = 4 /\ nextTok = 3 /\ remote.ver = 3
    /\ \E c \in Clients, TB \in Tokens :
          /\ proc[c].pc = "repush" /\ proc[c].op = "acquire" /\ proc[c].arg = "read"
          /\ proc[c].cloneVer = 2
          /\ TB # proc[c].uuid
          /\ remote.tree = R2Readers(proc[c].name, {TB})
          /\ proc[c].local = R2Readers(proc[c].name, {proc[c].uuid, TB})

\* the busy condition of acquire for a lock of kind k asked in mode m, on tree t
Busy(t, n, k, m) ==
    IF k = "simple" THEN InDir(t, n)
    ELSE IF m = "read" THEN InDir(t, n) /\ t.lock[n] # "READ"
    ELSE InDir(t, n) \/ t.read[n] # {}

\* C14: acquire of a declared lock, in mode read or write when the lock is
\* readwrite, is rejected on its clone exactly when the lock is busy there: for
\* kind simple when <name> exists, for readwrite and read when <name> exists
\* with a first line other than READ, for readwrite and write when <name> or a
\* file <name>.read.* exists.
C14_BusyCheck ==
    [][ (/\ Runs
         /\ Call.op = "acquire"
         /\ Declared(remote.tree, Call.name)
         /\ remote.tree.cfg.kind[Call.name] = "readwrite"
               => Call.arg \in {"read", "write"})
           => (Rejected <=>
                 Busy(remote.tree, Call.name,
                      remote.tree.cfg.kind[Call.name], Call.arg))
      ]_vars

\* C15: add_lock(name, kind) on a clone whose slig.ini already declares name
\* ends with status 1 without having anything to push, and the remote, with the
\* kind it records for name, is unchanged, whichever kind was asked for.
C15_DuplicateDeclareFails ==
    [][ (/\ Runs
         /\ Call.op = "add_lock"
         /\ Declared(remote.tree, Call.name))
           => /\ Rejected
              /\ remote'.tree.cfg.kind[Call.name] = remote.tree.cfg.kind[Call.name]
      ]_vars

\* C15 witness: initialize and two add_lock of one name have been started and
\* two commits published; the add_lock that ended last asked for another kind
\* than the declared one and has failed.
C15_Witness ==
    /\ started = 3 /\ remote.ver = 2 /\ Quiet
    /\ last.op = "add_lock" /\ last.status = "fail"
    /\ Declared(remote.tree, last.name)
    /\ remote.tree.cfg.kind[last.name] # last.arg

\* the held states of lock n in tree t
HeldExclusive(t, n) == LockAcquired(t, n)
HeldRead(t, n) == t.lock[n] = "READ"

\* C16: in two consecutive remote tips, no lock goes from HeldExclusive (a
\* token in <name>) to HeldRead (READ in <name>) or from HeldRead to
\* HeldExclusive: each such change has a tip in between.
C16_NoModeChangeWithoutFree ==
    [][ \A n \in Names :
          /\ HeldExclusive(remote.tree, n) => ~HeldRead(remote'.tree, n)
          /\ HeldRead(remote.tree, n) => ~HeldExclusive(remote'.tree, n)
      ]_vars

\* C17: the retry loop of _sync_check_conflict, while only acquire and release
\* run on the declared locks.  A push after a rebase that is
\* rejected while fewer than MAX_RETRY rounds have run is followed by another
\* round (pull --rebase); and acquire or release fail in the sync only in a
\* pull --rebase that stops on a conflict or in the rejected push of round
\* MAX_RETRY.
C17_SyncRetriesUpToMaxRetry ==
    [][ \A c \in Clients :
          /\ (/\ phase # "mixed"
              /\ proc[c].pc = "repush" /\ proc'[c] # proc[c]
              /\ GitPush(proc[c]) = "rejected"
              /\ proc[c].retry_cnt < MAX_RETRY)
                => proc'[c].pc = "pull"
          /\ (/\ phase # "mixed"
              /\ Ends(c) /\ last'.status = "fail"
              /\ proc[c].pc \in {"push", "pull", "repush"})
                => \/ /\ proc[c].pc = "pull"
                      /\ RebaseConflict(proc[c].base, remote.tree, proc[c].local)
                   \/ /\ proc[c].pc = "repush"
                      /\ proc[c].retry_cnt = MAX_RETRY
      ]_vars

\* C18: add_lock on a clone that has no slig.ini, or a slig.ini without a locks
\* section, ends with status 1 and publishes nothing: no commit of it is under
\* way and the remote is unchanged.
C18_DeclareNeedsConfig ==
    [][ (/\ Runs
         /\ Call.op = "add_lock"
         /\ ~HasLocks(remote.tree))
           => Rejected
      ]_vars

\* ---- termination ----
\* the steps of the invocation in slot c after its commit: git commands that
\* the process itself runs, each of which returns
Step(c) == PlainPush(c) \/ Push(c) \/ PullRebase(c) \/ RePush(c)

\* every invocation that has committed goes on running
FairSpec == Spec /\ \A c \in Clients : WF_vars(Step(c))

\* git push and git pull --rebase issued so far by the sync of invocation p
PushAttempts(p) == IF p.pc \in {"pull", "repush"} THEN p.retry_cnt ELSE 0
PullAttempts(p) == IF p.pc = "repush" THEN p.retry_cnt
                   ELSE IF p.pc = "pull" THEN p.retry_cnt - 1 ELSE 0

\* C19: bounded termination.  The sync of an acquire or release has issued at
\* most MAX_RETRY pushes when one more is to come, so at most 1 + MAX_RETRY in
\* all, and at most MAX_RETRY pull --rebase; the next step of an invocation
\* under way can always be taken, whatever the tip and the other invocations
\* are; and every invocation under way ends.
C19_BoundedTermination ==
    /\ [](\A c \in Clients :
             /\ PushAttempts(proc[c]) + 1 <= 1 + MAX_RETRY
             /\ PullAttempts(proc[c]) <= MAX_RETRY
             /\ proc[c].pc = "pull" => PullAttempts(proc[c]) + 1 <= MAX_RETRY
             /\ proc[c].pc # "idle" => ENABLED Step(c))
    /\ \A c \in Clients : (proc[c].pc # "idle") ~> (proc[c].pc = "idle")

\* C19 witness: an acquire or release has had its first push rejected, has
\* rebased, and another invocation has published a commit before its second
\* push.
C19_Witness ==
    \E c \in Clients :
       /\ proc[c].pc = "repush" /\ proc[c].op \in {"acquire", "release"}
       /\ GitPush(proc[c]) = "rejected"

\* C20: releasability of a granted token, while only acquire and release run on
\* the declared locks.  release(name, T) on a clone of a tip that has the lock
\* file of token T (T in <name>, or the file <name>.read.T) is not rejected: it
\* commits the removal of T's lock file.
C20_GrantedTokenReleasable ==
    [][ (/\ phase # "mixed"
         /\ Runs
         /\ Call.op = "release" /\ Call.uuid \in Tokens
         /\ Declared(remote.tree, Call.name)
         /\ Holds(remote.tree, Call.name, Call.uuid))
           => \E c \in Clients :
                 /\ proc[c].pc = "idle" /\ proc'[c].pc = "push"
                 /\ ~Holds(proc'[c].local, Call.name, Call.uuid)
      ]_vars

====
